---- MODULE Spec2Model ----
(***************************************************************************)
(* Didact: createElement, render and the idle-callback work loop.          *)
(* JavaScript values are records tagged with their type in field t;        *)
(* objects that are elements carry type and props, host (DOM) nodes are    *)
(* records with the properties the library assigned and their childNodes.  *)
(***************************************************************************)
EXTENDS Integers, Sequences, FiniteSets, TLC

VARIABLES
    container,       \* the host node render appends under (document #root)
    nextUnitOfWork,  \* Didact.js: let nextUnitOfWork
    idleCallbacks,   \* outstanding requestIdleCallback(workLoop) registrations
    processed,       \* history: the arguments performUnitOfWork was called with
    rendered,        \* history: the elements render returned normally for
    call,            \* the latest call: its operation, arguments and result
    tick             \* flips at every workLoop invocation

vars == <<container, nextUnitOfWork, idleCallbacks, processed, rendered,
          call, tick>>

-----------------------------------------------------------------------------
(* Bounds *)

MaxChildren == 2     \* children passed to one createElement call
MaxRenders == 2      \* render calls in one behaviour
MaxQueries == 2      \* timeRemaining() answers a deadline object can give

-----------------------------------------------------------------------------
(* JavaScript values *)

Null == [t |-> "null", v |-> "null"]
Undefined == [t |-> "undefined", v |-> "undefined"]
Str(s) == [t |-> "string", v |-> s]
Num(s) == [t |-> "number", v |-> s]
Bool(s) == [t |-> "boolean", v |-> s]
Obj(f) == [t |-> "object", fields |-> f]

NoProps == [k \in {} |-> Null]

\* typeof: null reports "object"
TypeOf(x) == IF x.t = "null" THEN "object" ELSE x.t

\* ToBoolean, as used by the && of the while condition
Truthy(x) ==
    /\ x.t \notin {"null", "undefined"}
    /\ x # Bool("false")
    /\ x # Num("0")
    /\ x # Str("")

\* { ...props }: spreading null or undefined adds no key
Spread(props) == IF props.t = "object" THEN props.fields ELSE NoProps

-----------------------------------------------------------------------------
(* createElement *)

createTextElement(text) ==
    [t |-> "object",
     type |-> "TEXT_ELEMENT",
     props |-> ("nodeValue" :> text) @@ ("children" :> <<>>)]

\* mutant: only strings are wrapped
WrapChildStringsOnly(child) ==
    IF child.t = "string" THEN createTextElement(child) ELSE child

WrapChild(child) ==
    IF TypeOf(child) = "object" THEN child ELSE createTextElement(child)

\* mutant: the props argument is not spread into props
createElementNoSpread(type, props, children) ==
    [t |-> "object",
     type |-> type,
     props |-> ("children" :> [i \in 1..Len(children) |-> WrapChild(children[i])])]

createElement(type, props, children) ==
    [t |-> "object",
     type |-> type,
     props |-> ("children" :> [i \in 1..Len(children) |-> WrapChild(children[i])])
               @@ Spread(props)]

-----------------------------------------------------------------------------
(* Host document *)

DocumentCreateTextNode ==
    [nodeType |-> "text", nodeName |-> "#text",
     assigned |-> NoProps, childNodes |-> <<>>]

DocumentCreateElement(type) ==
    [nodeType |-> "element", nodeName |-> type,
     assigned |-> NoProps, childNodes |-> <<>>]

\* mutant: the child is appended twice
AppendChildTwice(parent, child) ==
    [parent EXCEPT !.childNodes = Append(Append(@, child), child)]

AppendChild(parent, child) ==
    [parent EXCEPT !.childNodes = Append(@, child)]

-----------------------------------------------------------------------------
(* render *)

\* mutant: no key is filtered out
isPropertyAny(key) == TRUE

isProperty(key) == key # "children"

\* mutant: the node is appended as created, no property assigned
AssignPropsSkipped(dom, props) == dom

\* dom[name] = element.props[name] for every own key that isProperty
AssignProps(dom, props) ==
    [dom EXCEPT !.assigned =
        [name \in {key \in DOMAIN props : isProperty(key)} |-> props[name]]
        @@ @]

CreateDom(elem) ==
    IF elem.type = "TEXT_ELEMENT"
    THEN DocumentCreateTextNode
    ELSE DocumentCreateElement(elem.type)

RECURSIVE render(_, _)
RECURSIVE RenderChildren(_, _, _)

\* mutant: the children are visited from the last to the first
RenderChildrenReversed(children, i, dom) ==
    IF i > Len(children)
    THEN [ok |-> TRUE, node |-> dom]
    ELSE LET r == render(children[Len(children) + 1 - i], dom)
         IN IF r.ok THEN RenderChildren(children, i + 1, r.node) ELSE r

\* element.props.children.forEach(child => render(child, dom)), from child i on
RenderChildren(children, i, dom) ==
    IF i > Len(children)
    THEN [ok |-> TRUE, node |-> dom]
    ELSE LET r == render(children[i], dom)
         IN IF r.ok THEN RenderChildren(children, i + 1, r.node) ELSE r

\* mutant: the children are rendered into the container, not into dom
renderFlat(elem, cont) ==
    IF elem.t # "object"
    THEN [ok |-> FALSE, node |-> cont]
    ELSE LET dom == AssignProps(CreateDom(elem), elem.props)
             kids == RenderChildren(elem.props["children"], 1, cont)
         IN IF kids.ok
            THEN [ok |-> TRUE, node |-> AppendChild(kids.node, dom)]
            ELSE [ok |-> FALSE, node |-> kids.node]

\* The container as render leaves it; ok is FALSE when reading .type of a
\* null element throws before anything is appended to this container.
render(elem, cont) ==
    IF elem.t # "object"
    THEN [ok |-> FALSE, node |-> cont]
    ELSE LET dom == AssignProps(CreateDom(elem), elem.props)
             kids == RenderChildren(elem.props["children"], 1, dom)
         IN IF kids.ok
            THEN [ok |-> TRUE, node |-> AppendChild(cont, kids.node)]
            ELSE [ok |-> FALSE, node |-> cont]

-----------------------------------------------------------------------------
(* workLoop *)

performUnitOfWork(unit) == Undefined

\* the unit object once performUnitOfWork has run on it: the body is empty
UnitAfterWork(unit) == unit

\* the k-th answer of deadline.timeRemaining(); no time is left afterwards
TimeRemaining(deadline, k) ==
    IF k <= Len(deadline) THEN deadline[k] ELSE 0

RECURSIVE WorkLoopRun(_, _, _, _, _)
\* mutant: the loop body runs before the loop condition is first tested
WorkLoopRunBodyFirst(cursor, shouldYield, deadline, k, units) ==
    LET next == performUnitOfWork(cursor)
        yield == TimeRemaining(deadline, k) < 1
    IN IF Truthy(next) /\ ~yield
       THEN WorkLoopRun(next, yield, deadline, k + 1, Append(units, cursor))
       ELSE [cursor |-> next, units |-> Append(units, cursor)]

\* the while loop from its k-th test on
WorkLoopRun(cursor, shouldYield, deadline, k, units) ==
    IF Truthy(cursor) /\ ~shouldYield
    THEN WorkLoopRun(performUnitOfWork(cursor),
                     TimeRemaining(deadline, k) < 1,
                     deadline, k + 1, Append(units, cursor))
    ELSE [cursor |-> cursor, units |-> units]

requestIdleCallback(registrations) == registrations + 1

-----------------------------------------------------------------------------
(* Inputs *)

ElementTypes == {"div", "a"}

PropsArgs == {Null, Undefined, Obj("id" :> Str("foo"))}

\* createElement('b')
ElementB == createElement("b", Undefined, <<>>)

ScalarValues == {Str("bar"), Num("7"), Bool("true")}

ChildValues == ScalarValues \cup {Null, ElementB}

ChildLists == UNION {[1..n -> ChildValues] : n \in 0..MaxChildren}

\* <div style="background: salmon"><h1>Hello world</h1></div>
IndexElement ==
    createElement("div", Obj("style" :> Str("background: salmon")),
        <<createElement("h1", Null, <<Str("Hello world")>>)>>)

\* <div><h1><p /><a /></h1><h2 /></div>
FiberTreeElement ==
    createElement("div", Null,
        <<createElement("h1", Null,
              <<createElement("p", Null, <<>>), createElement("a", Null, <<>>)>>),
          createElement("h2", Null, <<>>)>>)

\* <div id='foo'><a>bar</a><b /></div>
FooElement ==
    createElement("div", Obj("id" :> Str("foo")),
        <<createElement("a", Null, <<Str("bar")>>), ElementB>>)

\* <div>{null}</div>
NullChildElement == createElement("div", Null, <<Null>>)

RenderInputs == {IndexElement, FiberTreeElement, FooElement, NullChildElement}

Deadlines == [1..MaxQueries -> {0, 1}]

-----------------------------------------------------------------------------
(* Operations *)

RootContainer == DocumentCreateElement("div")

Init ==
    /\ container = RootContainer
    /\ nextUnitOfWork = Null
    /\ idleCallbacks = requestIdleCallback(0)
    /\ processed = <<>>
    /\ rendered = <<>>
    /\ call = [op |-> "load"]
    /\ tick = 0

\* index.js builds its element before it renders
CreateElement(type, props, children) ==
    /\ rendered = <<>>
    /\ call' = [op |-> "createElement", type |-> type, props |-> props,
                children |-> children,
                result |-> createElement(type, props, children)]
    /\ UNCHANGED <<container, nextUnitOfWork, idleCallbacks, processed,
                   rendered, tick>>

\* mutant: render leaves the host tree to the idle callback and appends nothing
RenderDeferred(elem) ==
    /\ Len(rendered) < MaxRenders
    /\ LET r == render(elem, container)
       IN /\ container' = container
          /\ rendered' = IF r.ok THEN Append(rendered, elem) ELSE rendered
          /\ call' = [op |-> "render", element |-> elem, threw |-> ~r.ok]
    /\ UNCHANGED <<nextUnitOfWork, idleCallbacks, processed, tick>>

\* mutant: render empties the container before it appends
RenderReplacing(elem) ==
    /\ Len(rendered) < MaxRenders
    /\ LET r == render(elem, [container EXCEPT !.childNodes = <<>>])
       IN /\ container' = IF r.ok THEN r.node ELSE container
          /\ rendered' = IF r.ok THEN Append(rendered, elem) ELSE rendered
          /\ call' = [op |-> "render", element |-> elem, threw |-> ~r.ok]
    /\ UNCHANGED <<nextUnitOfWork, idleCallbacks, processed, tick>>

Render(elem) ==
    /\ Len(rendered) < MaxRenders
    /\ LET r == render(elem, container)
       IN /\ container' = r.node
          /\ rendered' = IF r.ok THEN Append(rendered, elem) ELSE rendered
          /\ call' = [op |-> "render", element |-> elem, threw |-> ~r.ok]
    /\ UNCHANGED <<nextUnitOfWork, idleCallbacks, processed, tick>>

\* mutant: the idle callback is requested before the loop and again after it
WorkLoopRearmTwice(deadline) ==
    /\ idleCallbacks > 0
    /\ LET run == WorkLoopRun(nextUnitOfWork, FALSE, deadline, 1, <<>>)
       IN /\ nextUnitOfWork' = run.cursor
          /\ processed' = processed \o run.units
          /\ call' = [op |-> "workLoop", deadline |-> deadline,
                      units |-> run.units]
    /\ idleCallbacks' = requestIdleCallback(requestIdleCallback(idleCallbacks - 1))
    /\ tick' = 1 - tick
    /\ UNCHANGED <<container, rendered>>

\* mutant: the idle callback is requested again only while work is left
WorkLoopRearmIfPending(deadline) ==
    /\ idleCallbacks > 0
    /\ LET run == WorkLoopRun(nextUnitOfWork, FALSE, deadline, 1, <<>>)
       IN /\ nextUnitOfWork' = run.cursor
          /\ processed' = processed \o run.units
          /\ call' = [op |-> "workLoop", deadline |-> deadline,
                      units |-> run.units]
          /\ idleCallbacks' = IF Truthy(run.cursor)
                              THEN requestIdleCallback(idleCallbacks - 1)
                              ELSE idleCallbacks - 1
    /\ tick' = 1 - tick
    /\ UNCHANGED <<container, rendered>>

\* mutant: workLoop returns without requesting the next idle callback
WorkLoopNoRearm(deadline) ==
    /\ idleCallbacks > 0
    /\ LET run == WorkLoopRun(nextUnitOfWork, FALSE, deadline, 1, <<>>)
       IN /\ nextUnitOfWork' = run.cursor
          /\ processed' = processed \o run.units
          /\ call' = [op |-> "workLoop", deadline |-> deadline,
                      units |-> run.units]
    /\ idleCallbacks' = idleCallbacks - 1
    /\ tick' = 1 - tick
    /\ UNCHANGED <<container, rendered>>

WorkLoop(deadline) ==
    /\ idleCallbacks > 0
    /\ LET run == WorkLoopRun(nextUnitOfWork, FALSE, deadline, 1, <<>>)
       IN /\ nextUnitOfWork' = run.cursor
          /\ processed' = processed \o run.units
          /\ call' = [op |-> "workLoop", deadline |-> deadline,
                      units |-> run.units]
    /\ idleCallbacks' = requestIdleCallback(idleCallbacks - 1)
    /\ tick' = 1 - tick
    /\ UNCHANGED <<container, rendered>>

Next ==
    \/ \E type \in ElementTypes, props \in PropsArgs, children \in ChildLists :
          CreateElement(type, props, children)
    \/ \E elem \in RenderInputs : Render(elem)
    \/ \E deadline \in Deadlines : WorkLoop(deadline)

Spec == Init /\ [][Next]_vars

\* the host runs a registered idle callback whenever the main thread is idle
FairSpec == Spec /\ WF_vars(\E deadline \in Deadlines : WorkLoop(deadline))

-----------------------------------------------------------------------------
(* Vocabulary of the properties *)

IsNone(x) == x.t \in {"null", "undefined"}

Children(elem) == elem.props["children"]

RECURSIVE ElementCount(_)
RECURSIVE ElementCountFrom(_, _)
\* the elements of the tree rooted at elem, elem included
ElementCount(elem) == 1 + ElementCountFrom(Children(elem), 1)
ElementCountFrom(children, i) ==
    IF i > Len(children) THEN 0
    ELSE ElementCount(children[i]) + ElementCountFrom(children, i + 1)

RECURSIVE NodeCount(_)
RECURSIVE NodeCountFrom(_, _)
\* the host nodes of the subtree rooted at node, node included
NodeCount(node) == 1 + NodeCountFrom(node.childNodes, 1)
NodeCountFrom(nodes, i) ==
    IF i > Len(nodes) THEN 0
    ELSE NodeCount(nodes[i]) + NodeCountFrom(nodes, i + 1)

RECURSIVE PreOrder(_)
RECURSIVE PreOrderFrom(_, _)
\* the kinds of the tree's elements in pre-order depth-first order
PreOrder(elem) == <<elem.type>> \o PreOrderFrom(Children(elem), 1)
PreOrderFrom(children, i) ==
    IF i > Len(children) THEN <<>>
    ELSE PreOrder(children[i]) \o PreOrderFrom(children, i + 1)

RECURSIVE MountedElements(_)
\* how many elements the first n completed render calls were given
MountedElements(n) ==
    IF n = 0 THEN 0 ELSE MountedElements(n - 1) + ElementCount(rendered[n])

RECURSIVE MountedNonRootElements(_)
MountedNonRootElements(n) ==
    IF n = 0 THEN 0
    ELSE MountedNonRootElements(n - 1) + (ElementCount(rendered[n]) - 1)

RECURSIVE MountedRootChildren(_)
MountedRootChildren(n) ==
    IF n = 0 THEN 0
    ELSE MountedRootChildren(n - 1) + Len(Children(rendered[n]))

RECURSIVE MountedPreOrder(_)
MountedPreOrder(n) ==
    IF n = 0 THEN <<>> ELSE MountedPreOrder(n - 1) \o PreOrder(rendered[n])

\* the host nodes created since the container was empty
NewNodes == NodeCount(container) - 1

HostName(elem) == IF elem.type = "TEXT_ELEMENT" THEN "#text" ELSE elem.type

Attributes(elem) == DOMAIN elem.props \ {"children"}

Min(a, b) == IF a < b THEN a ELSE b

-----------------------------------------------------------------------------
(* C1 *)

\* C1: when a workLoop invocation has returned with the cursor none, the
\* fibers the scheduler processed over all invocations are exactly the
\* elements of the mounted trees in pre-order depth-first order, each once
\* (div, h1, p, a, h2 for the tree of the notes).
C1_ProcessedInPreOrder ==
    (call.op = "workLoop" /\ IsNone(nextUnitOfWork)) =>
        [i \in 1..Len(processed) |-> processed[i].type]
            = MountedPreOrder(Len(rendered))

-----------------------------------------------------------------------------
(* C2 *)

\* C2: a call of render leaves the host tree as it was; host nodes are
\* created and appended only by later workLoop invocations.
C2_RenderLeavesHostTree ==
    [][call'.op = "render" => container' = container]_vars

-----------------------------------------------------------------------------
(* C3 *)

\* C3: after a render, if the host keeps running the registered idle
\* callback, a workLoop invocation eventually returns with the cursor none.
C3_PassTerminates ==
    (rendered # <<>>) ~> (call.op = "workLoop" /\ IsNone(nextUnitOfWork))

C3_Witness ==
    /\ rendered # <<>>
    /\ call.op = "workLoop"
    /\ IsNone(nextUnitOfWork)

-----------------------------------------------------------------------------
(* C4 *)

RECURSIVE Mirrors(_, _)
\* node is the host node of elem and its child nodes are, in order, the host
\* nodes of elem's children
Mirrors(node, elem) ==
    /\ node.nodeName = HostName(elem)
    /\ Len(node.childNodes) = Len(Children(elem))
    /\ \A i \in 1..Len(Children(elem)) :
          Mirrors(node.childNodes[i], Children(elem)[i])

-----------------------------------------------------------------------------
(* C5 *)

RECURSIVE Configured(_, _)
\* node and its descendants carry the kind and exactly the attributes of elem
\* and its descendants
Configured(node, elem) ==
    /\ node.nodeType = IF elem.type = "TEXT_ELEMENT" THEN "text" ELSE "element"
    /\ elem.type # "TEXT_ELEMENT" => node.nodeName = elem.type
    /\ "children" \notin DOMAIN node.assigned
    /\ DOMAIN node.assigned = Attributes(elem)
    /\ \A name \in Attributes(elem) : node.assigned[name] = elem.props[name]
    /\ \A i \in 1..Min(Len(node.childNodes), Len(Children(elem))) :
          Configured(node.childNodes[i], Children(elem)[i])

\* C5: every host node render created is a text node for a TEXT_ELEMENT and
\* a node of the element's type otherwise, and carries exactly the element's
\* props other than children, each with the element's value.
C5_NodesCarryAttributes ==
    \A k \in 1..Min(Len(rendered), Len(container.childNodes)) :
        Configured(container.childNodes[k], rendered[k])

C5_Witness ==
    /\ Len(rendered) > 0
    /\ rendered[1] = IndexElement
    /\ Len(container.childNodes) > 0
    /\ container.childNodes[1].assigned = ("style" :> Str("background: salmon"))
    /\ container.childNodes[1].childNodes[1].childNodes[1].nodeType = "text"

-----------------------------------------------------------------------------
(* C6 *)

\* an element handed to render has not been processed as a fiber yet
MountPending == Len(processed) < MountedElements(Len(rendered))

-----------------------------------------------------------------------------
(* C7 *)

\* C7: every workLoop invocation consumes one idle-callback registration and
\* requests exactly one, so the host goes on invoking workLoop for ever.
C7_ReArmsOnce ==
    /\ [][tick' # tick => idleCallbacks' = (idleCallbacks - 1) + 1]_vars
    /\ []<>(tick = 0)
    /\ []<>(tick = 1)

C7_Witness ==
    /\ call.op = "workLoop"
    /\ rendered # <<>>
    /\ idleCallbacks = 1

-----------------------------------------------------------------------------
(* C8 *)

RECURSIVE NoAttributeMissing(_, _)
\* the attached node and the descendants attached so far have every
\* attribute of their elements
NoAttributeMissing(node, elem) ==
    /\ Attributes(elem) \subseteq DOMAIN node.assigned
    /\ \A name \in Attributes(elem) : node.assigned[name] = elem.props[name]
    /\ \A i \in 1..Min(Len(node.childNodes), Len(Children(elem))) :
          NoAttributeMissing(node.childNodes[i], Children(elem)[i])

\* C8: whenever control is with the host, no node attached under the
\* container lacks an attribute of its element.
C8_AttachedNodesConfigured ==
    \A k \in 1..Min(Len(rendered), Len(container.childNodes)) :
        NoAttributeMissing(container.childNodes[k], rendered[k])

C8_Witness ==
    /\ call.op \in {"render", "workLoop"}
    /\ \E k \in 1..Len(container.childNodes) :
          /\ rendered[k] = FooElement
          /\ "id" \in DOMAIN container.childNodes[k].assigned
          /\ "nodeValue" \in
                DOMAIN container.childNodes[k].childNodes[1].childNodes[1].assigned

-----------------------------------------------------------------------------
(* C9 *)

\* C9: rendering the same element again into the container adds a second
\* copy of its subtree; the nodes of the first render stay in place.
C9_RenderTwiceDuplicates ==
    \A i, j \in 1..Len(rendered) :
        (i < j /\ rendered[i] = rendered[j]) =>
            /\ Len(container.childNodes) >= j
            /\ container.childNodes[i] = container.childNodes[j]
            /\ NewNodes >= 2 * ElementCount(rendered[i])

C9_Witness ==
    /\ Len(rendered) >= 2
    /\ rendered[1] = rendered[2]
    /\ Len(container.childNodes) >= 2

-----------------------------------------------------------------------------
(* C10 *)

IsScalar(x) == x.t \in {"string", "number", "boolean"}

\* C10: createElement turns every string, number or boolean child into a
\* TEXT_ELEMENT whose props are nodeValue, equal to the child, and an empty
\* children array.
C10_ScalarChildWrapped ==
    call.op = "createElement" =>
        \A i \in 1..Len(call.children) :
            IsScalar(call.children[i]) =>
                LET wrapped == Children(call.result)[i]
                IN /\ wrapped.t = "object"
                   /\ wrapped.type = "TEXT_ELEMENT"
                   /\ DOMAIN wrapped.props = {"nodeValue", "children"}
                   /\ wrapped.props["nodeValue"] = call.children[i]
                   /\ wrapped.props["children"] = <<>>

C10_Witness ==
    /\ call.op = "createElement"
    /\ \E i \in 1..Len(call.children) : call.children[i] = Num("7")

-----------------------------------------------------------------------------
(* C11 *)

\* C11: createElement returns an element of the given type whose children
\* are as many as the children passed, in the same order (an element child
\* is the same element, a scalar child is the nodeValue of its entry), and
\* whose props other than children are exactly the props passed, none for
\* null or omitted props; the element of the notes, div id=foo, has two
\* children: a with one TEXT_ELEMENT child and b with none.
C11_ElementShape ==
    /\ call.op = "createElement" =>
          /\ call.result.type = call.type
          /\ Len(Children(call.result)) = Len(call.children)
          /\ \A i \in 1..Len(call.children) :
                /\ call.children[i].t = "object" =>
                      Children(call.result)[i] = call.children[i]
                /\ IsScalar(call.children[i]) =>
                      /\ Children(call.result)[i].t = "object"
                      /\ Children(call.result)[i].props["nodeValue"]
                            = call.children[i]
          /\ Attributes(call.result) =
                IF call.props.t = "object" THEN DOMAIN call.props.fields ELSE {}
          /\ \A name \in Attributes(call.result) :
                call.result.props[name] = call.props.fields[name]
    /\ FooElement.type = "div"
    /\ Attributes(FooElement) = {"id"}
    /\ FooElement.props["id"] = Str("foo")
    /\ Len(Children(FooElement)) = 2
    /\ Children(FooElement)[1].type = "a"
    /\ Len(Children(Children(FooElement)[1])) = 1
    /\ Children(Children(FooElement)[1])[1].type = "TEXT_ELEMENT"
    /\ Children(FooElement)[2].type = "b"
    /\ Children(Children(FooElement)[2]) = <<>>

C11_Witness ==
    /\ call.op = "createElement"
    /\ call.type = "a"
    /\ call.props = Obj("id" :> Str("foo"))
    /\ call.children = <<ElementB, Str("bar")>>

-----------------------------------------------------------------------------
(* C12 *)

WellFormedElement(x) ==
    /\ x.t = "object"
    /\ {"type", "props"} \subseteq DOMAIN x
    /\ "children" \in DOMAIN x.props

\* C12: whatever children createElement is passed, null included, every
\* entry of the children array of its result is a well-formed element.
C12_ChildrenAreElements ==
    call.op = "createElement" =>
        \A i \in 1..Len(Children(call.result)) :
            WellFormedElement(Children(call.result)[i])

-----------------------------------------------------------------------------
(* C13 *)

\* C13: when render has returned, nextUnitOfWork is a root fiber for the
\* rendered element, with no host node, no child and no sibling of its own.
C13_RootFiberPending ==
    (call.op = "render" /\ ~call.threw) =>
        /\ ~IsNone(nextUnitOfWork)
        /\ nextUnitOfWork.element = call.element
        /\ IsNone(nextUnitOfWork.hostNode)
        /\ IsNone(nextUnitOfWork.child)
        /\ IsNone(nextUnitOfWork.sibling)

-----------------------------------------------------------------------------
(* C14 *)

\* C14: a workLoop invocation that starts with the cursor none leaves it
\* none, processes nothing and leaves the host tree alone; the cursor goes
\* from none to a fiber in no step but a render.
C14_IdleStaysIdle ==
    /\ [][(tick' # tick /\ IsNone(nextUnitOfWork)) =>
            /\ IsNone(nextUnitOfWork')
            /\ processed' = processed
            /\ container' = container]_vars
    /\ [][(IsNone(nextUnitOfWork) /\ ~IsNone(nextUnitOfWork')) =>
            call'.op = "render"]_vars

C14_Witness ==
    /\ call.op = "workLoop"
    /\ call.units = <<>>
    /\ IsNone(nextUnitOfWork)
    /\ rendered # <<>>

-----------------------------------------------------------------------------
(* Fibers of a rendered tree, as the notes describe them *)

RECURSIVE Paths(_)
\* the positions of the elements of the tree: the child indices from the root
Paths(elem) ==
    {<<>>} \cup
    UNION {{<<i>> \o p : p \in Paths(Children(elem)[i])} :
              i \in 1..Len(Children(elem))}

RECURSIVE ElementAt(_, _)
ElementAt(root, path) ==
    IF path = <<>> THEN root
    ELSE ElementAt(Children(root)[Head(path)], Tail(path))

Front(path) == SubSeq(path, 1, Len(path) - 1)

\* the fiber of the element at path, not processed yet: no child linked
FiberAt(root, path) ==
    [t |-> "object", element |-> ElementAt(root, path), root |-> root,
     path |-> path, child |-> Undefined, sibling |-> Undefined]

FirstChildOf(fiber) ==
    IF Children(fiber.element) = <<>> THEN Null
    ELSE FiberAt(fiber.root, fiber.path \o <<1>>)

SiblingOf(fiber) ==
    IF fiber.path = <<>> THEN Null
    ELSE LET parent == ElementAt(fiber.root, Front(fiber.path))
             last == fiber.path[Len(fiber.path)]
         IN IF last < Len(Children(parent))
            THEN FiberAt(fiber.root, Front(fiber.path) \o <<last + 1>>)
            ELSE Null

ParentOf(fiber) ==
    IF fiber.path = <<>> THEN Null ELSE FiberAt(fiber.root, Front(fiber.path))

RECURSIVE SiblingOrUncle(_)
\* the sibling of the nearest of fiber, its parent, its grandparent, ... that
\* has one
SiblingOrUncle(fiber) ==
    IF IsNone(fiber) THEN Null
    ELSE IF ~IsNone(SiblingOf(fiber)) THEN SiblingOf(fiber)
    ELSE SiblingOrUncle(ParentOf(fiber))

NextByRule(fiber) ==
    IF ~IsNone(FirstChildOf(fiber)) THEN FirstChildOf(fiber)
    ELSE SiblingOrUncle(fiber)

RECURSIVE SiblingChain(_)
\* fiber, its sibling, the sibling of that, ...
SiblingChain(fiber) ==
    IF IsNone(fiber) THEN <<>>
    ELSE <<fiber>> \o SiblingChain(fiber.sibling)

-----------------------------------------------------------------------------
(* C15 *)

\* C15: for every fiber of a rendered tree, the unit performUnitOfWork
\* returns is the fiber's child if it has one, else the sibling of the
\* nearest of the fiber and its ancestors that has a sibling, else none.
C15_NextUnitByRule ==
    \A k \in 1..Len(rendered) :
        \A path \in Paths(rendered[k]) :
            LET fiber == FiberAt(rendered[k], path)
                next == performUnitOfWork(fiber)
            IN IF IsNone(NextByRule(fiber))
               THEN IsNone(next)
               ELSE next = NextByRule(fiber)

-----------------------------------------------------------------------------
(* C16 *)

\* C16: once performUnitOfWork has run on a fiber, the fiber's child and the
\* sibling links from it are one fiber per child of the fiber's element, in
\* order, and the child is unset exactly when the element has no children.
C16_ChildFibersLinked ==
    \A k \in 1..Len(rendered) :
        \A path \in Paths(rendered[k]) :
            LET fiber == UnitAfterWork(FiberAt(rendered[k], path))
                chain == SiblingChain(fiber.child)
            IN /\ IsNone(fiber.child) <=> Children(fiber.element) = <<>>
               /\ Len(chain) = Len(Children(fiber.element))
               /\ \A i \in 1..Len(chain) :
                     /\ chain[i].element = Children(fiber.element)[i]
                     /\ chain[i].path = fiber.path \o <<i>>

-----------------------------------------------------------------------------
(* C18 *)

\* C18: the host node made for an element is made and appended once: a node
\* attached under the container is the same node in every later state, and
\* a render adds exactly one node per element of its tree.
C18_HostNodeKept ==
    [][/\ Len(container'.childNodes) >= Len(container.childNodes)
       /\ \A k \in 1..Len(container.childNodes) :
             container'.childNodes[k] = container.childNodes[k]
       /\ rendered' # rendered =>
             NodeCount(container') =
                 NodeCount(container) + ElementCount(call'.element)]_vars

C18_Witness ==
    /\ Len(rendered) = 2
    /\ Len(container.childNodes) = 2
    /\ call.op = "workLoop"

-----------------------------------------------------------------------------
(* C20 *)

-----------------------------------------------------------------------------
(* C21 *)

RECURSIVE InDocumentOrder(_, _)
\* the child nodes attached under node so far are, in order, the nodes of the
\* first children of elem, and so on below them
InDocumentOrder(node, elem) ==
    /\ node.nodeName = HostName(elem)
    /\ Len(node.childNodes) <= Len(Children(elem))
    /\ \A i \in 1..Len(node.childNodes) :
          i <= Len(Children(elem)) =>
              InDocumentOrder(node.childNodes[i], Children(elem)[i])

\* C21: in every state the child nodes render has appended under a host node
\* stand in the order of the element's children, and the nodes under the
\* container in the order of the render calls.
C21_DocumentOrder ==
    /\ Len(container.childNodes) <= Len(rendered)
    /\ \A k \in 1..Len(container.childNodes) :
          k <= Len(rendered) =>
              InDocumentOrder(container.childNodes[k], rendered[k])

C21_Witness ==
    \E k \in 1..Len(container.childNodes) :
        /\ rendered[k] = FiberTreeElement
        /\ container.childNodes[k].childNodes[1].nodeName = "h1"
        /\ container.childNodes[k].childNodes[2].nodeName = "h2"
        /\ container.childNodes[k].childNodes[1].childNodes[1].nodeName = "p"
        /\ container.childNodes[k].childNodes[1].childNodes[2].nodeName = "a"

-----------------------------------------------------------------------------
(* C22 *)

\* C22: between any two handlers exactly one idle callback is registered;
\* registrations neither run out nor pile up, so one workLoop at most is due.
C22_OneRegistration == idleCallbacks = 1

C22_Witness ==
    /\ call.op = "workLoop"
    /\ tick = 0
    /\ Len(rendered) = MaxRenders
    /\ idleCallbacks = 1

-----------------------------------------------------------------------------
(* C23 *)

RECURSIVE SyncRender(_)
\* the container after the first n mounted elements were rendered one after
\* the other with no idle callback in between
SyncRender(n) ==
    IF n = 0 THEN RootContainer
    ELSE render(rendered[n], SyncRender(n - 1)).node

====
